---- MODULE Spec2Model ----
(***************************************************************************)
(* Request normalization and two-tier caching layer of the GNews MCP       *)
(* server (src/gnews.py): sanitize_query, validate_max, the per-tool       *)
(* in-memory TTLCache, the optional persistent disk cache, _fetch and the  *)
(* two tool entry points search_news and top_headlines.                    *)
(*                                                                         *)
(* The query text is a sequence of code points.  Every other Python value  *)
(* is a tagged object [type, val, dtype, text]: None, a str, an int, a     *)
(* bool, or the pydantic FieldInfo object a parameter holds when a handler *)
(* is called directly without it.                                          *)
(* Time is a clock in seconds that advances by TickStep; a handler runs    *)
(* from its entry to its `await _fetch(...)`, and from the response to its *)
(* return, without the clock moving.  The process may start on a cache     *)
(* directory that an earlier run of it has written.                        *)
(***************************************************************************)
EXTENDS Integers, Sequences, FiniteSets, Bags, TLC

VARIABLES
    now,            \* the clock (time.monotonic / time.time), in seconds
    api_key,        \* TRUE iff os.getenv("GNEWS_API_KEY") is non-empty
    disk_enabled,   \* TRUE iff disk_cache is not None (gnews.py:48-54)
    search_cache,   \* TTLCache(maxsize, ttl=60): entries, least recently used first
    headline_cache, \* TTLCache(maxsize, ttl=30): entries, least recently used first
    disk_cache,     \* rows of the persistent cache directory
    inv,            \* bag of the invocations suspended in `await _fetch(...)`
    last,           \* history: what the most recent step did
    watch,          \* history (SpecW): a successful fetch, followed until its TTL ends
    fin,            \* input of the pure function under test (SpecFn)
    fout            \* its outcome

vars == <<now, api_key, disk_enabled, search_cache, headline_cache, disk_cache,
          inv, last, watch, fin, fout>>

-----------------------------------------------------------------------------
(* Bounds of the model *)

\* seconds per clock tick
TickStep == 30
\* invocations that may be suspended in their fetch at once
MaxInFlight == 2
\* longest text enumerated letter by letter in SpecFn
MaxRawLen == 3
\* validate_max is applied to every integer from -MaxProbe to MaxProbe
MaxProbe == 102
\* longest article list handed to _normalize_articles in SpecFn
MaxArticles == 2
\* entries stored in a cache beyond its capacity in SpecCap
MaxOverfill == 2

(* Program constants *)

\* TTLCache(maxsize=256, ttl=60)
SearchMaxSize == 256
\* TTLCache(maxsize=64, ttl=30)
HeadlineMaxSize == 64
MAX_QUERY_LEN == 300
SEARCH_TTL == 60
HEADLINE_TTL == 30
SEARCH_DISK_EXPIRE == 60
HEADLINE_DISK_EXPIRE == 30
MAX_LOWER == 1
MAX_UPPER == 100

\* the clock is followed until one tick past the longer lifetime, so that an
\* entry of either cache can be met before, at and after its deadline
Horizon == SEARCH_TTL + TickStep

-----------------------------------------------------------------------------
(* Python values.  type: the value's class; val: its number (int, bool) or *)
(* its length (list); text: its characters (str); dtype: for a FieldInfo   *)
(* the class of the default it wraps, otherwise the class again.  A list   *)
(* carries its elements in a further field, items.  A dict is the record   *)
(* of its keys and has no type field.                                      *)

Obj(type, val, dtype, text) ==
    [type |-> type, val |-> val, dtype |-> dtype, text |-> text]

None == Obj("NoneType", 0, "NoneType", "")
Str(s) == Obj("str", 0, "str", s)
\* True == 1 and False == 0
Bool(b) == Obj("bool", IF b THEN 1 ELSE 0, "bool", "")
IntArg(n) == Obj("int", n, "int", "")
OtherArg(t, n) == Obj(t, n, t, "")
\* a list (a JSON array) of the given elements
List(items) ==
    [type |-> "list", val |-> Len(items), dtype |-> "list", text |-> "",
     items |-> items]

\* Field(default, description=...): the object a parameter holds when a
\* handler is called directly without that argument
FieldInfoOf(default) == Obj("FieldInfo", default.val, default.type, default.text)
FieldDefault(n) == FieldInfoOf(IntArg(n))

\* `v is None`
IsNone(v) == v.type = "NoneType"

\* bool(v): None, 0, False, "" and [] are false, any other object is true
Truthy(v) ==
    IF v.type \in {"int", "bool", "float", "list"} THEN v.val # 0
    ELSE IF v.type = "str" THEN v.text # ""
    ELSE ~IsNone(v)

-----------------------------------------------------------------------------
(* Text helpers *)

Rep(n, c) == [i \in 1..n |-> c]

\* re [\x00-\x08\x0B\x0C\x0E-\x1F]
ControlChars == (0..8) \cup {11, 12} \cup (14..31)

\* str.isspace() / re \s on str: Unicode whitespace
Whitespace == {9, 10, 11, 12, 13, 28, 29, 30, 31, 32, 133, 160, 5760,
               8232, 8233, 8239, 8287, 12288} \cup (8192..8202)

\* re.sub(r"[\x00-\x08\x0B\x0C\x0E-\x1F]", "", q)
StripControl(q) == SelectSeq(q, LAMBDA c : c \notin ControlChars)

\* q.strip(): from the first to the last character that is not whitespace
Strip(q) ==
    LET solid == {i \in 1..Len(q) : q[i] \notin Whitespace} IN
    IF solid = {} THEN <<>>
    ELSE SubSeq(q, CHOOSE i \in solid : \A k \in solid : i <= k,
                   CHOOSE i \in solid : \A k \in solid : k <= i)

\* re.sub(r"\s+", " ", q): a whitespace character that starts a run becomes a
\* space, the rest of the run goes
CollapseSpaces(q) ==
    LET marked == [i \in 1..Len(q) |->
                     IF q[i] \notin Whitespace THEN q[i]
                     ELSE IF i > 1 /\ q[i - 1] \in Whitespace THEN -1
                     ELSE 32]
    IN SelectSeq(marked, LAMBDA c : c # -1)

\* the text sanitize_query works on before its two checks
Normalize(q) == CollapseSpaces(Strip(StripControl(q)))

Ok(v) == [ok |-> TRUE, val |-> v, err |-> ""]
Err(e, v) == [ok |-> FALSE, val |-> v, err |-> e]

\* faulty variant: the length limit applied to the text as received
sanitize_query_rawlen(q) ==
    LET n == Normalize(q) IN
    IF n = <<>> THEN Err("Query must not be empty after sanitization", <<>>)
    ELSE IF Len(q) > MAX_QUERY_LEN THEN Err("Query too long", <<>>)
    ELSE Ok(n)

\* sanitize_query (gnews.py:77-87)
sanitize_query(q) ==
    LET n == Normalize(q) IN
    IF n = <<>> THEN Err("Query must not be empty after sanitization", <<>>)
    ELSE IF Len(n) > MAX_QUERY_LEN THEN Err("Query too long", <<>>)
    ELSE Ok(n)

-----------------------------------------------------------------------------
(* validate_max *)

\* isinstance(m, int): bool is a subclass of int
IsInt(t) == t \in {"int", "bool"}

\* faulty variant: the range taken exclusive of its ends
validate_max_exclusive(m) ==
    LET t == IF m.type = "FieldInfo" THEN m.dtype ELSE m.type IN
    IF ~IsInt(t) THEN Err("Parameter 'max' must be an integer", 0)
    ELSE IF ~(MAX_LOWER < m.val /\ m.val < MAX_UPPER)
         THEN Err("Parameter 'max' must be between 1 and 100 inclusive", 0)
    ELSE Ok(m.val)

\* faulty variant: a FieldInfo default object is not unwrapped
validate_max_no_unwrap(m) ==
    IF ~IsInt(m.type) THEN Err("Parameter 'max' must be an integer", 0)
    ELSE IF ~(MAX_LOWER <= m.val /\ m.val <= MAX_UPPER)
         THEN Err("Parameter 'max' must be between 1 and 100 inclusive", 0)
    ELSE Ok(m.val)

\* validate_max (gnews.py:89-97)
validate_max(m) ==
    LET t == IF m.type = "FieldInfo" THEN m.dtype ELSE m.type IN
    IF ~IsInt(t) THEN Err("Parameter 'max' must be an integer", 0)
    ELSE IF ~(MAX_LOWER <= m.val /\ m.val <= MAX_UPPER)
         THEN Err("Parameter 'max' must be between 1 and 100 inclusive", 0)
    ELSE Ok(m.val)

-----------------------------------------------------------------------------
(* Upstream responses and _normalize_articles.  resp.json() gives a dict   *)
(* for a JSON object (the record of the keys it has), List for an array,   *)
(* None, Str and IntArg for null, a string and a number.                   *)

RawArticle1 ==
    [title |-> Str("Headline1"), description |-> None,
     url |-> Str("http://example.com/1"), source |-> [name |-> Str("Src1")],
     publishedAt |-> None, image |-> None]
RawArticle2 ==
    [title |-> Str("Headline2"), description |-> Str("Desc2"),
     url |-> Str("http://example.com/2"), source |-> [name |-> Str("Src2")],
     publishedAt |-> Str("2025-11-17T01:00:00Z"), image |-> None]
\* no title, no url, source null
RawArticle3 == [description |-> Str("Desc3"), source |-> None]
\* title null
RawArticle5 == [title |-> None, url |-> Str("u")]

\* 200 bodies the provider may answer with
Responses ==
    { [totalArticles |-> 2, articles |-> List(<<RawArticle1, RawArticle2>>)],
      [articles |-> List(<<RawArticle3>>)],
      [articles |-> List(<<RawArticle5>>)],
      [articles |-> List(<<RawArticle1, None>>)],
      List(<<>>) }

\* {}
EmptyDict == [k \in {} |-> None]

\* the value is a JSON object
IsDict(v) == "type" \notin DOMAIN v

\* d.get(k, default) of a dict d
Get(d, k, default) == IF k \in DOMAIN d THEN d[k] ELSE default

\* the keys of a dict, as `for k in d` yields them: each a str (the order of
\* insertion is not kept: a record has none)
RECURSIVE Keys(_)
Keys(names) ==
    IF names = {} THEN <<>>
    ELSE LET k == CHOOSE k \in names : TRUE IN <<Str(k)>> \o Keys(names \ {k})

\* the elements `for a in v` visits: those of a list, the keys of a dict, the
\* characters of a str (each a str again; a non-empty text stands for its
\* characters); any other value is not iterable
Iterate(v) ==
    IF IsDict(v) THEN Ok(Keys(DOMAIN v))
    ELSE IF v.type = "list" THEN Ok(v.items)
    ELSE IF v.type = "str" THEN Ok(IF v.text = "" THEN <<>> ELSE <<v>>)
    ELSE Err("TypeError", <<>>)

\* `v or {}`
OrEmptyDict(v) ==
    IF IsDict(v) THEN v
    ELSE IF Truthy(v) THEN v
    ELSE EmptyDict

\* pydantic's check of a field declared str / Optional[str]
IsStr(v) == ~IsDict(v) /\ v.type = "str"
IsOptionalStr(v) == ~IsDict(v) /\ v.type \in {"str", "NoneType"}

\* Article(...).model_dump() of one element a of the list (gnews.py:115-122):
\* the arguments are evaluated first (a.get on an element that is not a dict,
\* and .get on a source that is not one, have no such attribute), then
\* Article validates its fields
NormalizeArticle(a) ==
    IF ~IsDict(a) THEN Err("AttributeError", <<>>)
    ELSE
    LET source == OrEmptyDict(Get(a, "source", EmptyDict)) IN
    IF ~IsDict(source) THEN Err("AttributeError", <<>>)
    ELSE LET article ==
               [title |-> Get(a, "title", Str("")),
                description |-> Get(a, "description", None),
                url |-> Get(a, "url", Str("")),
                source |-> Get(source, "name", None),
                published_at |-> Get(a, "publishedAt", None),
                image |-> Get(a, "image", None)]
         IN IF /\ IsStr(article.title)
               /\ IsOptionalStr(article.description)
               /\ IsStr(article.url)
               /\ IsOptionalStr(article.source)
               /\ IsOptionalStr(article.published_at)
               /\ IsOptionalStr(article.image)
            THEN Ok(article)
            ELSE Err("ValidationError", <<>>)

\* the loop of _normalize_articles: the articles in input order, or the
\* exception of the first one that fails
NormalizeAll(rawArticles) ==
    LET each == [i \in 1..Len(rawArticles) |-> NormalizeArticle(rawArticles[i])]
        failed == {i \in 1..Len(each) : ~each[i].ok}
    IN IF failed = {} THEN Ok([i \in 1..Len(each) |-> each[i].val])
       ELSE Err(each[CHOOSE i \in failed : \A j \in failed : i <= j].err, <<>>)

\* faulty variant: the provider's count is ignored
_normalize_articles_counted(raw) ==
    IF ~IsDict(raw) THEN Err("AttributeError", <<>>)
    ELSE
    LET elements == Iterate(Get(raw, "articles", List(<<>>))) IN
    IF ~elements.ok THEN elements
    ELSE
    LET articles == NormalizeAll(elements.val) IN
    IF ~articles.ok THEN articles
    ELSE Ok([total |-> Len(articles.val), articles |-> articles.val])

\* _normalize_articles (gnews.py:111-124): raw.get on a body that is not a
\* dict has no such attribute; the loop runs over whatever raw["articles"]
\* is
_normalize_articles(raw) ==
    IF ~IsDict(raw) THEN Err("AttributeError", <<>>)
    ELSE
    LET elements == Iterate(Get(raw, "articles", List(<<>>))) IN
    IF ~elements.ok THEN elements
    ELSE
    LET articles == NormalizeAll(elements.val) IN
    IF ~articles.ok THEN articles
    ELSE Ok([total |-> Get(raw, "totalArticles", Len(articles.val)),
             articles |-> articles.val])

NoResult == [total |-> -1, articles |-> <<>>]

-----------------------------------------------------------------------------
(* cachetools.TTLCache as the two module-level caches use it.  A cache is  *)
(* the sequence of its entries, least recently used first; an entry is     *)
(* [key, value, expires, stored] (stored: when it was written).            *)

\* TTLCache.expire(time): drop the entries whose deadline has passed
TTLCache_expire(cache, time) == SelectSeq(cache, LAMBDA e : time < e.expires)

\* faulty variant: a plain dict lookup, the deadline is not looked at
TTLCache_contains_any(cache, key, time) ==
    \E i \in 1..Len(cache) : cache[i].key = key

\* `cache_key in cache`
TTLCache_contains(cache, key, time) ==
    \E i \in 1..Len(cache) : cache[i].key = key /\ time < cache[i].expires

TTLCache_entry(cache, key) ==
    cache[CHOOSE i \in 1..Len(cache) : cache[i].key = key]

\* `cache[cache_key]` on a live entry: the value, and the key becomes most recently used
TTLCache_touch(cache, key) ==
    SelectSeq(cache, LAMBDA e : e.key # key) \o <<TTLCache_entry(cache, key)>>

\* faulty variant: no room is made, the cache grows past maxsize
TTLCache_setitem_unbounded(cache, key, value, maxsize, ttl, time) ==
    LET live == TTLCache_expire(cache, time)
    IN SelectSeq(live, LAMBDA e : e.key # key)
         \o <<[key |-> key, value |-> value, expires |-> time + ttl, stored |-> time]>>

\* `cache[cache_key] = value`: expire, make room (least recently used first), store
TTLCache_setitem(cache, key, value, maxsize, ttl, time) ==
    LET live == TTLCache_expire(cache, time)
        present == \E i \in 1..Len(live) : live[i].key = key
        excess == IF present \/ Len(live) + 1 <= maxsize THEN 0
                  ELSE Len(live) + 1 - maxsize
        kept == SubSeq(live, excess + 1, Len(live))
    IN SelectSeq(kept, LAMBDA e : e.key # key)
         \o <<[key |-> key, value |-> value, expires |-> time + ttl, stored |-> time]>>

(* diskcache.Cache: a set of rows [key, value, expires, stored] *)

\* faulty variant: the deadline comparison the wrong way round
DiskCache_hit_inverted(disk, dkey, time) ==
    \E r \in disk : r.key = dkey /\ r.expires < time

\* disk_cache.get(disk_key) is not None: there is a row that has not expired
DiskCache_hit(disk, dkey, time) ==
    \E r \in disk : r.key = dkey /\ r.expires > time

DiskCache_row(disk, dkey) == CHOOSE r \in disk : r.key = dkey

\* disk_cache.set(disk_key, value, expire=...): replace the row, cull expired rows
DiskCache_set(disk, dkey, value, expire, time) ==
    {r \in disk : r.key # dkey /\ ~(r.expires < time)}
      \cup {[key |-> dkey, value |-> value, expires |-> time + expire, stored |-> time]}

-----------------------------------------------------------------------------
(* Per-tool wiring *)

Tools == {"search", "headlines"}

MaxSizeOf(tool) == IF tool = "search" THEN SearchMaxSize ELSE HeadlineMaxSize
TTLOf(tool) == IF tool = "search" THEN SEARCH_TTL ELSE HEADLINE_TTL
\* faulty variant: the two tools' disk lifetimes exchanged
DiskExpireOf_swapped(tool) ==
    IF tool = "search" THEN HEADLINE_DISK_EXPIRE ELSE SEARCH_DISK_EXPIRE

DiskExpireOf(tool) == IF tool = "search" THEN SEARCH_DISK_EXPIRE ELSE HEADLINE_DISK_EXPIRE
MemOf(tool) == IF tool = "search" THEN search_cache ELSE headline_cache

\* ("search", cache_key) / ("headlines", cache_key)
DiskKey(tool, key) == <<tool, key>>

\* faulty variant: the key built from the query as received
SearchKey_raw(q, a, m) == <<a.q, a.lang, a.country, m, a.in_title>>

\* cache_key = (q, lang, country, max, in_title)
SearchKey(q, a, m) == <<q, a.lang, a.country, m, a.in_title>>
\* cache_key = (lang, country, category, max)
HeadlineKey(a, m) == <<a.lang, a.country, a.category, m>>

\* one item of a params dict: its name, whether its value is None, its value
Param(name, none, value) == [name |-> name, none |-> none, value |-> value]

\* params = {"q": q, "lang": lang, "country": country, "max": max,
\*           "in": "title" if in_title else None}
SearchParams(q, a, m) ==
    << Param("q", FALSE, q),
       Param("lang", IsNone(a.lang), a.lang),
       Param("country", IsNone(a.country), a.country),
       Param("max", FALSE, m),
       Param("in", ~Truthy(a.in_title),
             IF Truthy(a.in_title) THEN Str("title") ELSE None) >>

\* params = {"lang": lang, "country": country, "category": category, "max": max}
HeadlineParams(a, m) ==
    << Param("lang", IsNone(a.lang), a.lang),
       Param("country", IsNone(a.country), a.country),
       Param("category", IsNone(a.category), a.category),
       Param("max", FALSE, m) >>

\* the value of GNEWS_API_KEY when it is set
ApiKeyValue == "secret"

\* merged = {"apikey": api_key, **{k: v for k, v in params.items() if v is not None}}
Merged(params) ==
    <<Param("apikey", FALSE, ApiKeyValue)>> \o SelectSeq(params, LAMBDA p : ~p.none)

\* the GET that _fetch issues: f"{API_BASE}/{endpoint}" with the merged params
Request(endpoint, params) == [endpoint |-> endpoint, params |-> Merged(params)]

\* no GET
NoRequestSent == [endpoint |-> "", params |-> <<>>]

-----------------------------------------------------------------------------
(* The arguments a handler receives.  One shape for both tools:            *)
(* top_headlines has no q / in_title, search_news has no category.  The    *)
(* host transport resolves the defaults, so a tool call receives None, 10  *)
(* and False for what the client left out; a direct call of the function   *)
(* (as in tests/test_gnews_tools.py) receives the FieldInfo objects of the *)
(* signature instead.                                                      *)

Args(q, lang, country, category, max, in_title) ==
    [q |-> q, lang |-> lang, country |-> country, category |-> category,
     max |-> max, in_title |-> in_title]

\* the defaults of the signatures (gnews.py:135-139, 172-175)
OptionalDefault == FieldInfoOf(None)
MaxDefault == FieldDefault(10)
InTitleDefault == FieldInfoOf(Bool(FALSE))

\* search_news(q=q) called directly
DirectSearch(q) ==
    Args(q, OptionalDefault, OptionalDefault, None, MaxDefault, InTitleDefault)

\* search_news called through the tool interface with q and max only
ToolSearch(q, max) == Args(q, None, None, None, IntArg(max), Bool(FALSE))

NoArgs == ToolSearch(<<>>, 0)

SearchInputs ==
    { DirectSearch(<<32, 97, 32>>),      \* " a "
      DirectSearch(<<97>>),              \* "a"
      ToolSearch(<<97>>, 10),
      ToolSearch(<<32, 9>>, 10),         \* " \t"
      ToolSearch(<<97>>, 0),
      ToolSearch(<<97>>, 101) }

HeadlineInputs ==
    { \* top_headlines(lang="en") called directly
      Args(<<>>, Str("en"), OptionalDefault, OptionalDefault, MaxDefault,
           Bool(FALSE)),
      Args(<<>>, None, None, None, IntArg(0), Bool(FALSE)),
      Args(<<>>, None, None, None, IntArg(101), Bool(FALSE)) }

-----------------------------------------------------------------------------
(* State *)

\* a handler suspended in `await _fetch(...)`: its tool, its cache_key, and the
\* GETs it has issued
Awaiting(tool, key) == [tool |-> tool, key |-> key, reqs |-> 1]

Suspend(i) == inv (+) SetToBag({i})
Resume(i) == inv (-) SetToBag({i})

\* what a step did: kind, the tool, the q a call was made with, the cache key,
\* the value returned, the upstream requests the invocation has issued, the GET
\* the step sent
Ev(kind, tool, q0, key, result, reqs) ==
    [kind |-> kind, tool |-> tool, q0 |-> q0, key |-> key, result |-> result,
     reqs |-> reqs, sent |-> NoRequestSent]

NoWatch ==
    [on |-> FALSE, tool |-> "", key |-> <<>>, result |-> NoResult, expires |-> 0]

\* where the pure functions are not under test
NoRaw == [articles |-> List(<<>>)]
NoInput == [fn |-> "", q |-> <<>>, m |-> IntArg(0), a |-> NoArgs, raw |-> NoRaw]
Pending == [done |-> FALSE, ok |-> FALSE, val |-> <<>>, err |-> ""]

\* rows an earlier run of the process may have left in the cache directory
PriorDisks ==
    { {},
      { [key |-> <<"search", <<(<<97>>), None, None, 10, Bool(FALSE)>> >>,
         value |-> [total |-> 0, articles |-> <<>>],
         expires |-> SEARCH_DISK_EXPIRE, stored |-> 0] } }

\* module initialisation of disk_cache (gnews.py:47-54): a DiskCache when
\* GNEWS_CACHE_DIR is set, diskcache was imported and DiskCache(dir) did not
\* raise; None otherwise.  TRUE stands for `disk_cache is not None`.
DiskCacheInit(dir_set, backend, init_ok) == dir_set /\ backend /\ init_ok

Init ==
    /\ now = 0
    /\ api_key \in BOOLEAN
    /\ disk_enabled \in {DiskCacheInit(d, b, o) : d \in BOOLEAN, b \in BOOLEAN,
                                                 o \in BOOLEAN}
    /\ search_cache = <<>>
    /\ headline_cache = <<>>
    /\ disk_cache \in (IF disk_enabled THEN PriorDisks ELSE {{}})
    /\ inv = EmptyBag
    /\ last = Ev("init", "", <<>>, <<>>, NoResult, 0)
    /\ watch = NoWatch
    /\ fin = NoInput
    /\ fout = Pending

\* faulty variant: one memory cache shared by the two tools
SetMem_shared(tool, cache) ==
    search_cache' = cache /\ UNCHANGED headline_cache

\* the tool's own module-level cache is the one that is written
SetMem(tool, cache) ==
    IF tool = "search"
    THEN search_cache' = cache /\ UNCHANGED headline_cache
    ELSE headline_cache' = cache /\ UNCHANGED search_cache

-----------------------------------------------------------------------------
(* The tool entry points, from the call to the first of: an exception, a   *)
(* return, the suspension in `await _fetch(...)`.                          *)

\* ValueError out of sanitize_query / validate_max
Reject(tool, a) ==
    /\ last' = Ev("validation_error", tool, a.q, <<>>, NoResult, 0)
    /\ UNCHANGED <<now, api_key, disk_enabled, search_cache, headline_cache,
                   disk_cache, inv, fin, fout>>

\* `if cache_key in cache: return cache[cache_key]`
MemoryHit(tool, a, key) ==
    LET e == TTLCache_entry(MemOf(tool), key) IN
    /\ SetMem(tool, TTLCache_touch(MemOf(tool), key))
    /\ last' = Ev("memory_hit", tool, a.q, key, e.value, 0)
    /\ UNCHANGED <<now, api_key, disk_enabled, disk_cache, inv, fin, fout>>

\* `cached = disk_cache.get(disk_key); if cached is not None: return cached`
DiskHit(tool, a, key) ==
    LET r == DiskCache_row(disk_cache, DiskKey(tool, key)) IN
    /\ last' = Ev("disk_hit", tool, a.q, key, r.value, 0)
    /\ UNCHANGED <<now, api_key, disk_enabled, search_cache, headline_cache,
                   disk_cache, inv, fin, fout>>

\* faulty variant: a call whose key is already being fetched waits for that
\* fetch and sends nothing
StartFetch_coalesced(tool, a, key, endpoint, params) ==
    IF ~api_key
    THEN /\ last' = Ev("config_error", tool, a.q, key, NoResult, 0)
         /\ UNCHANGED <<now, api_key, disk_enabled, search_cache, headline_cache,
                        disk_cache, inv, fin, fout>>
    ELSE IF BagIn(Awaiting(tool, key), inv)
    THEN /\ last' = Ev("request_sent", tool, a.q, key, NoResult, 0)
         /\ UNCHANGED <<now, api_key, disk_enabled, search_cache, headline_cache,
                        disk_cache, inv, fin, fout>>
    ELSE /\ BagCardinality(inv) < MaxInFlight
         /\ inv' = Suspend(Awaiting(tool, key))
         /\ last' = [Ev("request_sent", tool, a.q, key, NoResult, 1)
                       EXCEPT !.sent = Request(endpoint, params)]
         /\ UNCHANGED <<now, api_key, disk_enabled, search_cache, headline_cache,
                        disk_cache, fin, fout>>

\* _fetch up to its await: get_api_key raises, or the GET is issued
StartFetch(tool, a, key, endpoint, params) ==
    IF ~api_key
    THEN /\ last' = Ev("config_error", tool, a.q, key, NoResult, 0)
         /\ UNCHANGED <<now, api_key, disk_enabled, search_cache, headline_cache,
                        disk_cache, inv, fin, fout>>
    ELSE /\ BagCardinality(inv) < MaxInFlight
         /\ inv' = Suspend(Awaiting(tool, key))
         /\ last' = [Ev("request_sent", tool, a.q, key, NoResult, 1)
                       EXCEPT !.sent = Request(endpoint, params)]
         /\ UNCHANGED <<now, api_key, disk_enabled, search_cache, headline_cache,
                        disk_cache, fin, fout>>

\* the cache-then-fetch protocol both tools run (gnews.py:148-162, 183-196)
CacheThenFetch(tool, a, key, endpoint, params) ==
    IF TTLCache_contains(MemOf(tool), key, now)
    THEN MemoryHit(tool, a, key)
    ELSE IF disk_enabled /\ DiskCache_hit(disk_cache, DiskKey(tool, key), now)
    THEN DiskHit(tool, a, key)
    ELSE StartFetch(tool, a, key, endpoint, params)

search_news(a) ==
    LET q == sanitize_query(a.q) IN
    IF ~q.ok THEN Reject("search", a)
    ELSE LET max == validate_max(a.max) IN
         IF ~max.ok THEN Reject("search", a)
         ELSE CacheThenFetch("search", a, SearchKey(q.val, a, max.val),
                             "search", SearchParams(q.val, a, max.val))

\* faulty variant: max used without validate_max
top_headlines_unvalidated(a) ==
    CacheThenFetch("headlines", a, HeadlineKey(a, a.max.val),
                   "top-headlines", HeadlineParams(a, a.max.val))

top_headlines(a) ==
    LET max == validate_max(a.max) IN
    IF ~max.ok THEN Reject("headlines", a)
    ELSE CacheThenFetch("headlines", a, HeadlineKey(a, max.val),
                        "top-headlines", HeadlineParams(a, max.val))

-----------------------------------------------------------------------------
(* The rest of a suspended invocation *)

\* faulty variant: the row is written whether or not a disk cache was built
StoreDisk_unguarded(tool, key, normalized) ==
    DiskCache_set(disk_cache, DiskKey(tool, key), normalized, DiskExpireOf(tool), now)

\* `disk_cache.set((tool, cache_key), normalized, expire=...)` when configured
StoreDisk(tool, key, normalized) ==
    IF disk_enabled
    THEN DiskCache_set(disk_cache, DiskKey(tool, key), normalized, DiskExpireOf(tool), now)
    ELSE disk_cache

\* `cache[cache_key] = normalized`
StoreMem(tool, key, normalized) ==
    TTLCache_setitem(MemOf(tool), key, normalized, MaxSizeOf(tool), TTLOf(tool), now)

\* a 200 response arrives for the suspended invocation i: normalize, store in
\* both tiers, return; an exception out of _normalize_articles leaves the
\* handler before anything is stored
FetchReturn(i, raw) ==
    /\ BagIn(i, inv)
    /\ LET normalized == _normalize_articles(raw) IN
       IF normalized.ok
       THEN /\ SetMem(i.tool, StoreMem(i.tool, i.key, normalized.val))
            /\ disk_cache' = StoreDisk(i.tool, i.key, normalized.val)
            /\ last' = Ev("fetched", i.tool, <<>>, i.key, normalized.val, i.reqs)
       ELSE /\ last' = Ev("invalid_response", i.tool, <<>>, i.key, NoResult, i.reqs)
            /\ UNCHANGED <<search_cache, headline_cache, disk_cache>>
    /\ inv' = Resume(i)
    /\ UNCHANGED <<now, api_key, disk_enabled, fin, fout>>

\* faulty variant: the failure is remembered under the cache key
OnFetchError_cached(i) ==
    /\ inv' = Resume(i)
    /\ last' = Ev("upstream_error", i.tool, <<>>, i.key, NoResult, i.reqs)
    /\ SetMem(i.tool, StoreMem(i.tool, i.key, NoResult))
    /\ UNCHANGED <<now, api_key, disk_enabled, disk_cache, fin, fout>>

\* faulty variant: the GET is issued once more
OnFetchError_retry(i) ==
    /\ i.reqs < 3
    /\ inv' = Resume(i) (+) SetToBag({[i EXCEPT !.reqs = i.reqs + 1]})
    /\ last' = Ev("request_sent", i.tool, <<>>, i.key, NoResult, i.reqs + 1)
    /\ UNCHANGED <<now, api_key, disk_enabled, search_cache, headline_cache,
                   disk_cache, fin, fout>>

\* what the invocation does when its GET fails (non-200, network error,
\* timeout, a 200 body resp.json() cannot parse): the exception leaves the
\* handler
OnFetchError(i) ==
    /\ inv' = Resume(i)
    /\ last' = Ev("upstream_error", i.tool, <<>>, i.key, NoResult, i.reqs)
    /\ UNCHANGED <<now, api_key, disk_enabled, search_cache, headline_cache,
                   disk_cache, fin, fout>>

FetchError(i) ==
    /\ BagIn(i, inv)
    /\ OnFetchError(i)

\* faulty variant: the cancelled invocation leaves an empty result under its key
Cancel_partial(i) ==
    /\ BagIn(i, inv)
    /\ inv' = Resume(i)
    /\ last' = Ev("cancelled", i.tool, <<>>, i.key, NoResult, i.reqs)
    /\ SetMem(i.tool, StoreMem(i.tool, i.key, [total |-> 0, articles |-> <<>>]))
    /\ UNCHANGED <<now, api_key, disk_enabled, disk_cache, fin, fout>>

\* the caller cancels the invocation while it awaits the response
Cancel(i) ==
    /\ BagIn(i, inv)
    /\ inv' = Resume(i)
    /\ last' = Ev("cancelled", i.tool, <<>>, i.key, NoResult, i.reqs)
    /\ UNCHANGED <<now, api_key, disk_enabled, search_cache, headline_cache,
                   disk_cache, fin, fout>>

-----------------------------------------------------------------------------
(* Environment *)

Tick ==
    /\ now + TickStep <= Horizon
    /\ now' = now + TickStep
    /\ last' = Ev("tick", "", <<>>, <<>>, NoResult, 0)
    /\ UNCHANGED <<api_key, disk_enabled, search_cache, headline_cache, disk_cache,
                   inv, fin, fout>>

SearchCall == \E a \in SearchInputs : search_news(a)

HeadlinesCall == \E a \in HeadlineInputs : top_headlines(a)

Response == \E i \in BagToSet(inv), raw \in Responses : FetchReturn(i, raw)

Failure == \E i \in BagToSet(inv) : FetchError(i)

Cancellation == \E i \in BagToSet(inv) : Cancel(i)

Next ==
    \/ SearchCall /\ UNCHANGED watch
    \/ HeadlinesCall /\ UNCHANGED watch
    \/ Response /\ UNCHANGED watch
    \/ Failure /\ UNCHANGED watch
    \/ Cancellation /\ UNCHANGED watch
    \/ Tick /\ UNCHANGED watch

\* history: a successful fetch of the search for "a" at process start is
\* followed until the deadline of the entry it stored
WatchNext ==
    IF watch.on
    THEN (IF now' >= watch.expires THEN NoWatch ELSE watch)
    ELSE IF /\ last'.kind = "fetched"
            /\ last'.tool = "search"
            /\ last'.key[1] = <<97>>
            /\ now' = 0
    THEN [on |-> TRUE, tool |-> last'.tool, key |-> last'.key,
          result |-> last'.result, expires |-> now' + TTLOf(last'.tool)]
    ELSE watch

NextW ==
    \/ SearchCall /\ watch' = WatchNext
    \/ HeadlinesCall /\ watch' = WatchNext
    \/ Response /\ watch' = WatchNext
    \/ Failure /\ watch' = WatchNext
    \/ Cancellation /\ watch' = WatchNext
    \/ Tick /\ watch' = WatchNext

Spec == Init /\ [][Next]_vars

\* a process started without GNEWS_CACHE_DIR, without diskcache, or whose
\* DiskCache(dir) raised: disk_cache stays None
InitW ==
    /\ now = 0
    /\ api_key \in BOOLEAN
    /\ disk_enabled \in {DiskCacheInit(c[1], c[2], c[3]) :
                           c \in {x \in BOOLEAN \X BOOLEAN \X BOOLEAN :
                                    ~(x[1] /\ x[2] /\ x[3])}}
    /\ search_cache = <<>>
    /\ headline_cache = <<>>
    /\ disk_cache = {}
    /\ inv = EmptyBag
    /\ last = Ev("init", "", <<>>, <<>>, NoResult, 0)
    /\ watch = NoWatch
    /\ fin = NoInput
    /\ fout = Pending

\* the memory-only deployment, with the history variable watch kept
SpecW == InitW /\ [][NextW]_vars

-----------------------------------------------------------------------------
(* The caches filled to their capacity and beyond: tool calls with keys    *)
(* that differ in max and lang, each answered before the next is made,     *)
(* first top_headlines, then search_news.                                  *)

FillLangs == <<None, Str("en"), Str("fr")>>

\* the n-th call of the filling sequence
FillArgs(tool, n) ==
    IF tool = "search"
    THEN Args(<<97>>, FillLangs[((n - 1) \div MAX_UPPER) + 1], None, None,
              IntArg(((n - 1) % MAX_UPPER) + 1), Bool(FALSE))
    ELSE Args(<<>>, None, None, None, IntArg(n), Bool(FALSE))

\* the place in the filling sequence of the call that has the key
FillIndex(tool, key) ==
    IF tool = "search"
    THEN key[4] + MAX_UPPER
                    * ((CHOOSE l \in 1..Len(FillLangs) : FillLangs[l] = key[2]) - 1)
    ELSE key[4]

\* the next call to make: the one after the entry stored last
NextFill(tool) ==
    IF MemOf(tool) = <<>> THEN 1
    ELSE FillIndex(tool, MemOf(tool)[Len(MemOf(tool))].key) + 1

\* the 200 body every call of the filling sequence is answered with
FillBody == [totalArticles |-> 0, articles |-> List(<<>>)]

HeadlinesFill ==
    /\ inv = EmptyBag
    /\ NextFill("headlines") <= HeadlineMaxSize + MaxOverfill
    /\ top_headlines(FillArgs("headlines", NextFill("headlines")))

SearchFill ==
    /\ inv = EmptyBag
    /\ NextFill("headlines") > HeadlineMaxSize + MaxOverfill
    /\ NextFill("search") <= SearchMaxSize + MaxOverfill
    /\ search_news(FillArgs("search", NextFill("search")))

FillResponse == \E i \in BagToSet(inv) : FetchReturn(i, FillBody)

NextCap ==
    \/ HeadlinesFill /\ UNCHANGED watch
    \/ SearchFill /\ UNCHANGED watch
    \/ FillResponse /\ UNCHANGED watch

InitCap ==
    /\ now = 0
    /\ api_key = TRUE
    /\ disk_enabled = FALSE
    /\ search_cache = <<>>
    /\ headline_cache = <<>>
    /\ disk_cache = {}
    /\ inv = EmptyBag
    /\ last = Ev("init", "", <<>>, <<>>, NoResult, 0)
    /\ watch = NoWatch
    /\ fin = NoInput
    /\ fout = Pending

SpecCap == InitCap /\ [][NextCap]_vars

-----------------------------------------------------------------------------
(* The pure functions on their own: an input is drawn, the function is     *)
(* applied to it.                                                          *)

\* texts of up to n code points over a small alphabet: a control character,
\* tab, space, no-break space, "a"
RECURSIVE Texts(_)
Texts(n) ==
    IF n = 0 THEN {<<>>}
    ELSE LET shorter == Texts(n - 1) IN
         shorter \cup {t \o <<c>> : t \in shorter, c \in {0, 9, 32, 160, 97}}

\* texts around the length limit: lead spaces, n letters with an optional run
\* of control characters or whitespace in the middle, trailing tabs
LongTexts ==
    { Rep(lead, 32) \o Rep(n \div 2, 120) \o mid \o Rep(n - (n \div 2), 120)
        \o Rep(trail, 9) :
        lead \in 0..1, trail \in 0..1,
        n \in (MAX_QUERY_LEN - 2)..(MAX_QUERY_LEN + 1),
        mid \in {<<>>, <<0, 31>>, <<32, 9, 32>>} }

SanitizeInputs ==
    { [fn |-> "sanitize_query", q |-> q, m |-> IntArg(0), a |-> NoArgs,
       raw |-> NoRaw] :
        q \in Texts(MaxRawLen) \cup LongTexts }

ValidateMaxInputs ==
    { [fn |-> "validate_max", q |-> <<>>, m |-> m, a |-> NoArgs, raw |-> NoRaw] :
        m \in {IntArg(n) : n \in (-MaxProbe)..MaxProbe}
               \cup {FieldDefault(10), FieldDefault(0), OtherArg("bool", 1),
                     OtherArg("float", 10), Str("10"), FieldInfoOf(None)} }

\* arguments of the two tools: each optional parameter None, left out of a
\* direct call, empty or given (the text "None" among the languages)
RequestInputs ==
    { [fn |-> fn, q |-> <<>>, m |-> IntArg(0), raw |-> NoRaw,
       a |-> Args(<<32, 97, 32>>, lang, country, category, max, in_title)] :
        fn \in {"search_request", "headlines_request"},
        lang \in {None, OptionalDefault, Str(""), Str("en"), Str("None")},
        country \in {None, OptionalDefault, Str("us")},
        category \in {None, OptionalDefault, Str("sports")},
        max \in {IntArg(10), MaxDefault},
        in_title \in {Bool(FALSE), Bool(TRUE), InTitleDefault} }

\* the GET search_news issues when both tiers miss (gnews.py:145-147, 155-162)
search_request(a) ==
    LET q == sanitize_query(a.q) IN
    IF ~q.ok THEN q
    ELSE LET max == validate_max(a.max) IN
         IF ~max.ok THEN max
         ELSE Ok(Request("search", SearchParams(q.val, a, max.val)))

\* the GET top_headlines issues when both tiers miss (gnews.py:181, 190-196)
headlines_request(a) ==
    LET max == validate_max(a.max) IN
    IF ~max.ok THEN max
    ELSE Ok(Request("top-headlines", HeadlineParams(a, max.val)))

\* raw articles as the provider may send them: fields missing, null, of
\* another type
RawArticle4 == [title |-> Str("Headline4"), source |-> [url |-> Str("http://src4")]]
RawArticle6 == [title |-> Str("T"), url |-> None]
RawArticle7 == [title |-> Str("T"), url |-> Str("u"), source |-> Str("Src7")]
RawArticle8 == [title |-> Str("T"), url |-> Str("u"), source |-> [name |-> IntArg(8)]]
RawArticle9 == [title |-> IntArg(9), source |-> EmptyDict, image |-> Str("i")]
\* the last four: elements that are not objects (null, a string, a number,
\* an array)
RawArticles ==
    {RawArticle1, RawArticle2, RawArticle3, RawArticle4, RawArticle5,
     RawArticle6, RawArticle7, RawArticle8, RawArticle9,
     [url |-> Str("u"), source |-> Str("")],
     [description |-> IntArg(1)],
     [title |-> Str("T"), url |-> Str("u"), source |-> List(<<>>)],
     [title |-> Str("T"), url |-> Str("u"), source |-> List(<<Str("Src")>>)],
     None, Str("x"), IntArg(5), List(<<>>)}

\* values of "articles" that are not arrays: null, a number, a string (empty
\* or not), an object (empty or not)
NonListArticles ==
    {None, IntArg(3), Str(""), Str("ab"), EmptyDict, RawArticle1}

\* response bodies: up to MaxArticles articles, with and without totalArticles,
\* a body without the articles key, bodies whose articles is not an array,
\* and bodies that are not objects
RawBodies ==
    LET lists == UNION {[1..n -> RawArticles] : n \in 0..MaxArticles} IN
    {[articles |-> List(l)] : l \in lists}
      \cup {[totalArticles |-> t, articles |-> List(l)] : t \in {0, 7}, l \in lists}
      \cup {[totalArticles |-> 5]}
      \cup {[totalArticles |-> 4, articles |-> v] : v \in NonListArticles}
      \cup {None, List(<<>>), List(<<RawArticle1>>), Str("ok"), IntArg(1)}

NormalizeInputs ==
    { [fn |-> "_normalize_articles", q |-> <<>>, m |-> IntArg(0), a |-> NoArgs,
       raw |-> raw] : raw \in RawBodies }

InitFn ==
    /\ now = 0
    /\ api_key = TRUE
    /\ disk_enabled = FALSE
    /\ search_cache = <<>>
    /\ headline_cache = <<>>
    /\ disk_cache = {}
    /\ inv = EmptyBag
    /\ last = Ev("init", "", <<>>, <<>>, NoResult, 0)
    /\ watch = NoWatch
    /\ fin \in SanitizeInputs \cup ValidateMaxInputs \cup RequestInputs
                 \cup NormalizeInputs
    /\ fout = Pending

Done(r) == [done |-> TRUE, ok |-> r.ok, val |-> r.val, err |-> r.err]

ApplySanitizeQuery ==
    /\ fin.fn = "sanitize_query"
    /\ ~fout.done
    /\ fout' = Done(sanitize_query(fin.q))
    /\ UNCHANGED <<now, api_key, disk_enabled, search_cache, headline_cache,
                   disk_cache, inv, last, watch, fin>>

ApplyValidateMax ==
    /\ fin.fn = "validate_max"
    /\ ~fout.done
    /\ fout' = Done(validate_max(fin.m))
    /\ UNCHANGED <<now, api_key, disk_enabled, search_cache, headline_cache,
                   disk_cache, inv, last, watch, fin>>

ApplyBuildRequest ==
    /\ fin.fn \in {"search_request", "headlines_request"}
    /\ ~fout.done
    /\ fout' = Done(IF fin.fn = "search_request" THEN search_request(fin.a)
                                                  ELSE headlines_request(fin.a))
    /\ UNCHANGED <<now, api_key, disk_enabled, search_cache, headline_cache,
                   disk_cache, inv, last, watch, fin>>

ApplyNormalizeArticles ==
    /\ fin.fn = "_normalize_articles"
    /\ ~fout.done
    /\ fout' = Done(_normalize_articles(fin.raw))
    /\ UNCHANGED <<now, api_key, disk_enabled, search_cache, headline_cache,
                   disk_cache, inv, last, watch, fin>>

NextFn ==
    \/ ApplySanitizeQuery
    \/ ApplyValidateMax
    \/ ApplyBuildRequest
    \/ ApplyNormalizeArticles

SpecFn == InitFn /\ [][NextFn]_vars

-----------------------------------------------------------------------------
(* Vocabulary of the properties.  last' describes the step being taken.    *)

\* steps in which a tool is called
CallKinds == {"validation_error", "memory_hit", "disk_hit", "config_error",
              "request_sent"}
\* ... with parameters that pass validation
ValidCallKinds == CallKinds \ {"validation_error"}
\* ... and is served from a cache tier
HitKinds == {"memory_hit", "disk_hit"}

\* the lifetimes the specification gives: 60 s for search, 30 s for headlines
StatedTTL(tool) == IF tool = "search" THEN 60 ELSE 30

EntriesOf(tool) == {MemOf(tool)[i] : i \in 1..Len(MemOf(tool))}

\* the memory tier holds an entry for the key that was stored less than the
\* stated TTL ago
HeldInMemory(tool, key) ==
    \E e \in EntriesOf(tool) : e.key = key /\ now < e.stored + StatedTTL(tool)

MemoryValue(tool, key) == (CHOOSE e \in EntriesOf(tool) : e.key = key).value

\* the cache directory holds a row for (tool, key) stored less than the stated
\* TTL ago
HeldOnDisk(tool, key) ==
    \E r \in disk_cache :
        r.key[1] = tool /\ r.key[2] = key /\ now < r.stored + StatedTTL(tool)

DiskValue(tool, key) ==
    (CHOOSE r \in disk_cache : r.key[1] = tool /\ r.key[2] = key).value

\* the step issues no upstream request
NoRequest == last'.reqs = 0 /\ inv' = inv

CachesUnchanged == UNCHANGED <<search_cache, headline_cache, disk_cache>>

\* the step is a call that finds its key in neither tier
MissesBothTiers ==
    /\ last'.kind \in ValidCallKinds
    /\ ~HeldInMemory(last'.tool, last'.key)
    /\ ~(disk_enabled /\ HeldOnDisk(last'.tool, last'.key))

-----------------------------------------------------------------------------
\* C1 (as stated): once a call with validated parameters K has succeeded, every
\* later call with the same K made before the TTL of that entry has elapsed
\* returns the same result and issues no upstream request, whatever other calls
\* happened in between.  watch holds such a success (tool, K, its result, the
\* deadline of the entry it stored).
C1_Original ==
    [][ ( /\ watch.on
          /\ now < watch.expires
          /\ last'.kind \in ValidCallKinds
          /\ last'.tool = watch.tool
          /\ last'.key = watch.key )
        => ( /\ last'.kind \in HitKinds
             /\ last'.result = watch.result
             /\ NoRequest ) ]_vars

-----------------------------------------------------------------------------
\* C2: two raw queries with the same sanitized form use one cache key: a valid
\* search_news call is keyed on the sanitized query, and a call whose query
\* sanitizes to the query of the search that has just returned, the other
\* parameters being equal, returns the identical result with no upstream
\* request.
C2_SharedKey ==
    [][ /\ (last'.kind \in ValidCallKinds /\ last'.tool = "search") =>
             /\ sanitize_query(last'.q0).ok
             /\ last'.key[1] = sanitize_query(last'.q0).val
        /\ ( /\ last.kind \in HitKinds \cup {"fetched"}
             /\ last.tool = "search"
             /\ last'.kind \in ValidCallKinds
             /\ last'.tool = "search"
             /\ sanitize_query(last'.q0).val = last.key[1]
             /\ SubSeq(last'.key, 2, 5) = SubSeq(last.key, 2, 5) )
           => ( /\ last'.kind \in HitKinds
                /\ last'.key = last.key
                /\ last'.result = last.result
                /\ NoRequest ) ]_vars

\* a query that differs from its sanitized form is served from the entry kept
\* under the sanitized form
C2_Witness ==
    /\ last.kind = "memory_hit"
    /\ last.tool = "search"
    /\ last.q0 # last.key[1]
    /\ last.result.total > 0

-----------------------------------------------------------------------------
\* C3: with a disk cache configured, a call whose key has no live entry in
\* memory while the disk row is unexpired is served from the disk row with no
\* upstream request, and the row holds exactly what the fetch that wrote it
\* returned; without a disk cache nothing is served from disk.
C3_DiskFallback ==
    [][ /\ ( /\ last'.kind \in ValidCallKinds
             /\ disk_enabled
             /\ ~HeldInMemory(last'.tool, last'.key)
             /\ HeldOnDisk(last'.tool, last'.key) )
           => ( /\ last'.kind = "disk_hit"
                /\ last'.result = DiskValue(last'.tool, last'.key)
                /\ NoRequest
                /\ CachesUnchanged )
        /\ \A r \in disk_cache' \ disk_cache :
              /\ last'.kind = "fetched"
              /\ r.key = <<last'.tool, last'.key>>
              /\ r.value = last'.result
        /\ ~disk_enabled => (last'.kind # "disk_hit" /\ disk_cache' = {}) ]_vars

\* after a restart, which clears the memory tier, the search for "a" is
\* served from the row an earlier run left on disk, while memory holds another
\* key
C3_Witness ==
    /\ last.kind = "disk_hit"
    /\ last.tool = "search"
    /\ last.key[1] = <<97>>
    /\ search_cache # <<>>
    /\ \A e \in EntriesOf("search") : e.key # last.key

-----------------------------------------------------------------------------
\* C4: for every integer m, validate_max succeeds and returns m exactly when
\* 1 <= m <= 100.
C4_Range ==
    (fout.done /\ fin.fn = "validate_max" /\ fin.m.type = "int") =>
        /\ fout.ok <=> (1 <= fin.m.val /\ fin.m.val <= 100)
        /\ fout.ok => fout.val = fin.m.val

\* max=100 has been accepted
C4_Witness ==
    /\ fout.done
    /\ fin.fn = "validate_max"
    /\ fin.m = IntArg(100)
    /\ fout.ok
    /\ fout.val = 100

-----------------------------------------------------------------------------
(* The length of the normalized query, counted rather than built: with the *)
(* control characters left out, the characters that are not whitespace,    *)
(* plus one for each of them that follows whitespace and is not the first. *)

IsControl(c) == c \in ControlChars

IsSolid(c) == c \notin Whitespace

NormalizedLen(q) ==
    LET k == SelectSeq(q, LAMBDA c : ~IsControl(c))
        solid == {i \in 1..Len(k) : IsSolid(k[i])}
        afterGap == {i \in solid : /\ i > 1
                                   /\ ~IsSolid(k[i - 1])
                                   /\ \E j \in 1..(i - 1) : IsSolid(k[j])}
    IN Cardinality(solid) + Cardinality(afterGap)

\* C5: sanitize_query fails when the query is empty after normalization or its
\* normalized length exceeds 300, and succeeds otherwise, returning a text of
\* the normalized length.
C5_Length ==
    (fout.done /\ fin.fn = "sanitize_query") =>
        /\ fout.ok <=> (NormalizedLen(fin.q) >= 1 /\ NormalizedLen(fin.q) <= 300)
        /\ fout.ok => Len(fout.val) = NormalizedLen(fin.q)

\* a raw query longer than 300 characters accepted with a normalized form of
\* exactly 300
C5_Witness ==
    /\ fout.done
    /\ fin.fn = "sanitize_query"
    /\ Len(fin.q) > 300
    /\ fout.ok
    /\ Len(fout.val) = 300

-----------------------------------------------------------------------------
\* C6: a call that fails validation issues no upstream request and leaves the
\* memory and disk caches exactly as they were; and no call gets past
\* validation with an empty or over-long query or a max outside 1..100.
C6_FailFast ==
    [][ /\ last'.kind = "validation_error" =>
             /\ NoRequest
             /\ CachesUnchanged
        /\ last'.kind \in ValidCallKinds =>
             /\ last'.key[4] \in 1..100
             /\ last'.tool = "search" =>
                  /\ last'.key[1] # <<>>
                  /\ Len(last'.key[1]) <= 300 ]_vars

\* top_headlines has rejected its arguments while both tiers hold entries
C6_Witness ==
    /\ last.kind = "validation_error"
    /\ last.tool = "headlines"
    /\ headline_cache # <<>>
    /\ search_cache # <<>>
    /\ disk_cache # {}

-----------------------------------------------------------------------------
\* C7: an upstream error is never cached and never retried: the failing
\* invocation issued exactly one request and ends, both tiers are unchanged by
\* it, and the next call with the same key, finding no entry, issues a fresh
\* request.
C7_NoCacheNoRetry ==
    [][ /\ last'.kind = "upstream_error" =>
             /\ last'.reqs = 1
             /\ CachesUnchanged
             /\ inv' = inv (-) SetToBag({Awaiting(last'.tool, last'.key)})
             /\ BagCardinality(inv') = BagCardinality(inv) - 1
        /\ ( /\ last.kind = "upstream_error"
             /\ last'.kind \in ValidCallKinds
             /\ last'.tool = last.tool
             /\ last'.key = last.key
             /\ MissesBothTiers
             /\ api_key )
           => ( /\ last'.kind = "request_sent"
                /\ last'.reqs = 1
                /\ inv' = inv (+) SetToBag({Awaiting(last'.tool, last'.key)}) )
      ]_vars

\* a fetch has failed while the tiers hold entries of other calls and nothing
\* under its own key
C7_Witness ==
    /\ last.kind = "upstream_error"
    /\ last.reqs = 1
    /\ search_cache # <<>>
    /\ disk_cache # {}
    /\ ~HeldInMemory(last.tool, last.key)
    /\ ~HeldOnDisk(last.tool, last.key)

-----------------------------------------------------------------------------
\* C8 (as stated): when the API key is absent, every call with valid
\* parameters fails with the missing-credential error, in every cache state,
\* and sends no upstream request.
C8_Original ==
    [][ (~api_key /\ last'.kind \in ValidCallKinds)
        => (last'.kind = "config_error" /\ NoRequest) ]_vars

-----------------------------------------------------------------------------
\* C9: no expired entry is returned: a result served from a tier was stored in
\* that tier under the call's key at most 60 s (search) or 30 s (headlines)
\* before the call, and in fact less than that: at the deadline itself the
\* entry is no longer served.
C9_NoExpired ==
    [][ /\ last'.kind \in CallKinds => now' = now
        /\ last'.kind = "memory_hit" =>
             \E e \in EntriesOf(last'.tool) :
                 /\ e.key = last'.key
                 /\ e.value = last'.result
                 /\ now - e.stored < StatedTTL(last'.tool)
        /\ last'.kind = "disk_hit" =>
             \E r \in disk_cache :
                 /\ r.key = <<last'.tool, last'.key>>
                 /\ r.value = last'.result
                 /\ now - r.stored < StatedTTL(last'.tool) ]_vars

\* a search entry is served in the second half of its lifetime
C9_Witness ==
    /\ last.kind = "memory_hit"
    /\ last.tool = "search"
    /\ \E e \in EntriesOf("search") :
           e.key = last.key /\ now - e.stored >= 30 /\ now - e.stored < 60

-----------------------------------------------------------------------------
\* C10 (as stated): an invocation issues exactly one upstream request on a miss
\* in both tiers.
C10_Original ==
    [][ MissesBothTiers => (last'.reqs = 1 /\ last'.kind = "request_sent") ]_vars

\* C10 (amended): each invocation issues at most one upstream request over its
\* lifetime: zero on a validation error, on a cache hit in either tier and on a
\* miss in both tiers when the API key is missing; exactly one on a miss in
\* both tiers when the key is present; and never a second one after a failure.
C10_RequestCount ==
    /\ last'.reqs \in {0, 1}
    /\ last'.kind \in {"validation_error", "memory_hit", "disk_hit",
                       "config_error"} => NoRequest
    /\ MissesBothTiers =>
         IF api_key
         THEN /\ last'.kind = "request_sent"
              /\ last'.reqs = 1
              /\ inv' = inv (+) SetToBag({Awaiting(last'.tool, last'.key)})
         ELSE /\ last'.kind = "config_error"
              /\ NoRequest
    /\ last'.kind \in {"fetched", "upstream_error", "cancelled",
                       "invalid_response"} =>
         /\ last'.reqs = 1
         /\ BagCardinality(inv') = BagCardinality(inv) - 1
    /\ \A i \in BagToSet(inv') : i.reqs = 1

C10_Amended == [][C10_RequestCount]_vars

\* an invocation has ended in an upstream error after its one request, another
\* one still awaiting its response
C10_Witness ==
    /\ last.kind = "upstream_error"
    /\ last.reqs = 1
    /\ inv # EmptyBag

-----------------------------------------------------------------------------
\* C11: when no disk cache was built (not configured, backend missing, or its
\* construction failed) every request follows the memory-only protocol: a call
\* whose key is live in memory is a memory hit, any other valid call goes to
\* _fetch, a 200 response is stored in memory and returned, nothing is ever
\* served from or written to the disk tier, and no step fails for the lack of
\* it.
C11_MemoryOnly ==
    /\ ~disk_enabled
    /\ disk_cache = {}
    /\ disk_cache' = {}
    /\ last'.kind \in {"validation_error", "memory_hit", "config_error",
                       "request_sent", "fetched", "upstream_error", "cancelled",
                       "invalid_response", "tick"}
    /\ last'.kind \in ValidCallKinds =>
         IF HeldInMemory(last'.tool, last'.key)
         THEN /\ last'.kind = "memory_hit"
              /\ last'.result = MemoryValue(last'.tool, last'.key)
         ELSE IF api_key THEN last'.kind = "request_sent"
         ELSE last'.kind = "config_error"
    /\ last'.kind = "fetched" =>
         LET mem == IF last'.tool = "search" THEN search_cache'
                                              ELSE headline_cache'
         IN \E i \in 1..Len(mem) :
                mem[i].key = last'.key /\ mem[i].value = last'.result

C11_Degraded == [][C11_MemoryOnly]_vars

\* without a disk cache a fetch has completed and a later call is served from
\* memory
C11_Witness ==
    /\ ~disk_enabled
    /\ disk_cache = {}
    /\ last.kind = "memory_hit"
    /\ last.tool = "headlines"
    /\ now > 0

-----------------------------------------------------------------------------
(* The parameters of a GET, read by name *)

ParamNames(req) == {req.params[i].name : i \in 1..Len(req.params)}

ParamValue(req, name) ==
    req.params[CHOOSE i \in 1..Len(req.params) : req.params[i].name = name].value

\* the parameter is in the request exactly when `given`, and then with `value`
SentIff(req, name, given, value) ==
    /\ name \in ParamNames(req) <=> given
    /\ given => ParamValue(req, name) = value

\* the argument was given a value by the caller: it is neither None nor the
\* default object of the signature
Supplied(v) == ~IsNone(v) /\ v.type # "FieldInfo"

\* C12 (as stated): the upstream request carries the API key plus exactly the
\* tool parameters whose value is present: lang, country and category only
\* when supplied, 'in' (= "title") only when in_title is true, and no
\* parameter twice or with a None value.
C12_Original ==
    (fout.done /\ fin.fn \in {"search_request", "headlines_request"}) =>
        LET a == fin.a
            req == fout.val
            isSearch == fin.fn = "search_request"
        IN /\ fout.ok
           /\ req.endpoint = (IF isSearch THEN "search" ELSE "top-headlines")
           /\ Cardinality(ParamNames(req)) = Len(req.params)
           /\ \A i \in 1..Len(req.params) : ~req.params[i].none
           /\ SentIff(req, "apikey", TRUE, ApiKeyValue)
           /\ SentIff(req, "max", TRUE, 10)
           /\ SentIff(req, "lang", Supplied(a.lang), a.lang)
           /\ SentIff(req, "country", Supplied(a.country), a.country)
           /\ SentIff(req, "category", ~isSearch /\ Supplied(a.category), a.category)
           /\ SentIff(req, "q", isSearch, <<97>>)
           /\ SentIff(req, "in", isSearch /\ a.in_title = Bool(TRUE), Str("title"))
           /\ ParamNames(req) \subseteq
                {"apikey", "q", "lang", "country", "category", "max", "in"}

-----------------------------------------------------------------------------
\* the value _normalize_articles must give a field: the raw one when the raw
\* article has it, the default otherwise
FieldOr(article, name, default) ==
    IF name \in DOMAIN article THEN article[name] ELSE default

\* the raw article is one Article accepts: title and url, where present, are
\* strings; description, publishedAt and image, where present, are strings or
\* null; source, where present, is null, empty, or an object whose name, if
\* any, is a string or null
WellFormed(a) ==
    /\ \A f \in DOMAIN a \cap {"title", "url"} : IsStr(a[f])
    /\ \A f \in DOMAIN a \cap {"description", "publishedAt", "image"} :
          IsOptionalStr(a[f])
    /\ "source" \in DOMAIN a =>
          IF IsDict(a.source)
          THEN "name" \in DOMAIN a.source => IsOptionalStr(a.source.name)
          ELSE ~Truthy(a.source)

\* the body is one _normalize_articles can walk: an object whose articles,
\* where present, is an array of well-formed objects, or holds nothing to
\* visit (an empty object or string)
Walkable(raw) ==
    /\ IsDict(raw)
    /\ "articles" \in DOMAIN raw =>
          IF IsDict(raw.articles) THEN DOMAIN raw.articles = {}
          ELSE IF raw.articles.type = "list"
               THEN \A i \in 1..Len(raw.articles.items) :
                        /\ IsDict(raw.articles.items[i])
                        /\ WellFormed(raw.articles.items[i])
          ELSE raw.articles = Str("")

\* the raw article list of a body: the elements of its articles array, none
\* when there is no such array
RawList(raw) ==
    IF ~IsDict(raw) THEN <<>>
    ELSE IF "articles" \notin DOMAIN raw THEN <<>>
    ELSE IF IsDict(raw.articles) THEN <<>>
    ELSE IF raw.articles.type = "list" THEN raw.articles.items
    ELSE <<>>

\* C13: _normalize_articles maps the raw list element by element: as many
\* articles, in the same order; a missing title or url becomes "", a missing
\* description, source name, publishedAt or image becomes absent; total is
\* totalArticles when present, otherwise the number of articles.  It returns
\* exactly when the body is an object whose article list Article accepts
\* element by element, and raises otherwise.
C13_Normalize ==
    (fout.done /\ fin.fn = "_normalize_articles") =>
        LET raw == fin.raw
            src == RawList(raw)
            out == fout.val
        IN /\ fout.ok <=> Walkable(raw)
           /\ ~fout.ok =>
                fout.err \in {"ValidationError", "AttributeError", "TypeError"}
           /\ fout.ok =>
                /\ DOMAIN out = {"total", "articles"}
                /\ Len(out.articles) = Len(src)
                /\ \A i \in 1..Len(src) :
                     /\ DOMAIN out.articles[i] =
                          {"title", "description", "url", "source", "published_at",
                           "image"}
                     /\ out.articles[i].title = FieldOr(src[i], "title", Str(""))
                     /\ out.articles[i].url = FieldOr(src[i], "url", Str(""))
                     /\ out.articles[i].description
                          = FieldOr(src[i], "description", None)
                     /\ out.articles[i].published_at
                          = FieldOr(src[i], "publishedAt", None)
                     /\ out.articles[i].image = FieldOr(src[i], "image", None)
                     /\ out.articles[i].source =
                          (IF "source" \in DOMAIN src[i] /\ IsDict(src[i].source)
                           THEN FieldOr(src[i].source, "name", None) ELSE None)
                /\ out.total = (IF "totalArticles" \in DOMAIN raw
                                THEN raw.totalArticles ELSE Len(src))

\* two articles, the first without url and with a source that has no name,
\* and no totalArticles: the order is kept and total is 2
C13_Witness ==
    /\ fout.done
    /\ fout.ok
    /\ fin.fn = "_normalize_articles"
    /\ "totalArticles" \notin DOMAIN fin.raw
    /\ "articles" \in DOMAIN fin.raw
    /\ fin.raw.articles = List(<<RawArticle4, RawArticle1>>)
    /\ fout.val.total = 2
    /\ fout.val.articles[1].title = Str("Headline4")
    /\ fout.val.articles[1].url = Str("")
    /\ fout.val.articles[1].source = None
    /\ fout.val.articles[2].title = Str("Headline1")

-----------------------------------------------------------------------------
\* the requests in flight for (tool, key)
InFlightFor(bag, tool, key) ==
    LET these == {i \in BagToSet(bag) : i.tool = tool /\ i.key = key} IN
    IF these = {} THEN 0
    ELSE CopiesIn(CHOOSE i \in these : TRUE, bag)

\* C14: concurrent invocations with the same key are not coalesced: a call
\* that misses both tiers while a request for its key is already in flight
\* issues its own request, which joins the other in flight.
C14_NoCoalescing ==
    [][ ( /\ MissesBothTiers
          /\ api_key
          /\ InFlightFor(inv, last'.tool, last'.key) >= 1 )
        => ( /\ last'.kind = "request_sent"
             /\ last'.reqs = 1
             /\ last'.sent.endpoint # ""
             /\ InFlightFor(inv', last'.tool, last'.key)
                  = InFlightFor(inv, last'.tool, last'.key) + 1 ) ]_vars

\* two requests for the same search key are in flight at once, the second one
\* just sent
C14_Witness ==
    /\ last.kind = "request_sent"
    /\ last.tool = "search"
    /\ InFlightFor(inv, last.tool, last.key) = 2
    /\ search_cache = <<>>

-----------------------------------------------------------------------------
\* C15 (as stated): cache entries are immutable once stored: no step changes
\* the value held under a key in either tier while the entry has not expired
\* and is still held, and a hit returns the value held.
C15_Original ==
    [][ /\ \A tool \in Tools :
             \A e \in EntriesOf(tool) :
                 now' < e.stored + StatedTTL(tool) =>
                     \A f \in EntriesOf(tool)' : f.key = e.key => f.value = e.value
        /\ \A r \in disk_cache :
               now' < r.stored + StatedTTL(r.key[1]) =>
                   \A t \in disk_cache' : t.key = r.key => t.value = r.value
        /\ last'.kind = "memory_hit" =>
               last'.result = MemoryValue(last'.tool, last'.key)
        /\ last'.kind = "disk_hit" =>
               last'.result = DiskValue(last'.tool, last'.key) ]_vars

-----------------------------------------------------------------------------
\* C16: an invocation cancelled while its request is in flight writes nothing
\* to either tier: neither the step that sent the request nor the cancellation
\* changes the memory or disk caches, and the invocation ends there.
C16_Cancel ==
    [][ /\ last'.kind = "request_sent" => CachesUnchanged
        /\ last'.kind = "cancelled" =>
             /\ CachesUnchanged
             /\ last'.result = NoResult
             /\ InFlightFor(inv, last'.tool, last'.key) >= 1
             /\ InFlightFor(inv', last'.tool, last'.key)
                  = InFlightFor(inv, last'.tool, last'.key) - 1
             /\ BagCardinality(inv') = BagCardinality(inv) - 1 ]_vars

\* a search has been cancelled: both tiers hold entries of other calls and
\* nothing under its key
C16_Witness ==
    /\ last.kind = "cancelled"
    /\ last.tool = "search"
    /\ search_cache # <<>>
    /\ disk_cache # {}
    /\ \A e \in EntriesOf("search") : e.key # last.key
    /\ \A r \in disk_cache : r.key # <<"search", last.key>>

-----------------------------------------------------------------------------
\* C17: a successful fetch stores the normalized result under the call's key
\* in its tool's memory cache always, and on disk under (tool, key) exactly
\* when a disk cache is configured, each with a deadline 60 s (search) or 30 s
\* (headlines) ahead, and returns the value it stored; a response that cannot
\* be normalized stores nothing.
C17_Store ==
    [][ /\ last'.kind = "invalid_response" => CachesUnchanged
        /\ last'.kind = "fetched" =>
          LET t == last'.tool
              k == last'.key
              mem == IF t = "search" THEN search_cache' ELSE headline_cache'
              rows == {r \in disk_cache' : r.key = <<t, k>>}
          IN /\ InFlightFor(inv, t, k) >= 1
             /\ last'.result \in
                  {_normalize_articles(raw).val :
                     raw \in {r \in Responses : _normalize_articles(r).ok}}
             /\ \E i \in 1..Len(mem) :
                    /\ mem[i].key = k
                    /\ mem[i].value = last'.result
                    /\ mem[i].expires = now + StatedTTL(t)
                    /\ \A j \in 1..Len(mem) : mem[j].key = k => j = i
             /\ IF t = "search" THEN UNCHANGED headline_cache
                                ELSE UNCHANGED search_cache
             /\ IF disk_enabled
                THEN /\ Cardinality(rows) = 1
                     /\ \A r \in rows : /\ r.value = last'.result
                                        /\ r.expires = now + StatedTTL(t)
                ELSE rows = {} /\ disk_cache' = disk_cache ]_vars

\* a headlines fetch has completed after the clock has moved, with a disk cache:
\* both tiers hold its result until 30 s later
C17_Witness ==
    /\ last.kind = "fetched"
    /\ last.tool = "headlines"
    /\ now > 0
    /\ disk_enabled
    /\ \E r \in disk_cache :
           r.key = <<"headlines", last.key>> /\ r.value = last.result
             /\ r.expires = now + 30
    /\ \E e \in EntriesOf("headlines") :
           e.key = last.key /\ e.value = last.result /\ e.expires = now + 30

-----------------------------------------------------------------------------
\* the two errors of validate_max; both name the parameter 'max'
MaxErrors ==
    {"Parameter 'max' must be an integer",
     "Parameter 'max' must be between 1 and 100 inclusive"}

\* C18 (as stated): max is valid only if it is an integer in [1, 100]; any
\* other value passed as max, a default sentinel object included, makes
\* validate_max fail with an error that names the parameter.
C18_Original ==
    (fout.done /\ fin.fn = "validate_max") =>
        IF fin.m.type = "int" /\ 1 <= fin.m.val /\ fin.m.val <= 100
        THEN fout.ok /\ fout.val = fin.m.val
        ELSE ~fout.ok /\ fout.err \in MaxErrors

\* C18 (amended): validate_max first replaces a FieldInfo default object by
\* the default it wraps; the value is then valid exactly if it is a Python int
\* (bool included) in [1, 100], and is returned; anything else, a default
\* object wrapping a non-integer included, fails with an error that names the
\* parameter: "must be an integer" for a non-int, the range error otherwise.
C18_Amended ==
    (fout.done /\ fin.fn = "validate_max") =>
        LET m == fin.m
            effective == IF m.type = "FieldInfo" THEN m.dtype ELSE m.type
            isInt == effective \in {"int", "bool"}
        IN /\ fout.ok <=> (isInt /\ 1 <= m.val /\ m.val <= 100)
           /\ fout.ok => fout.val = m.val
           /\ ~fout.ok =>
                fout.err = (IF isInt
                            THEN "Parameter 'max' must be between 1 and 100 inclusive"
                            ELSE "Parameter 'max' must be an integer")

\* a default object that wraps None has been rejected as not an integer
C18_Witness ==
    /\ fout.done
    /\ fin.fn = "validate_max"
    /\ fin.m.type = "FieldInfo"
    /\ fin.m.dtype = "NoneType"
    /\ ~fout.ok
    /\ fout.err = "Parameter 'max' must be an integer"

-----------------------------------------------------------------------------
\* the keys of the entries of a memory cache
KeysOf(cache) == {cache[i].key : i \in 1..Len(cache)}

\* C19: search_cache never holds more than 256 entries and headline_cache
\* never more than 64 (one key per entry), and an insertion of a new key into a
\* cache whose unexpired entries fill it evicts one of them: the cache stays at
\* its capacity, holds the new key and has lost an unexpired one.
C19_Capacity ==
    /\ [](/\ Len(search_cache) <= 256
          /\ Len(headline_cache) <= 64
          /\ Cardinality(KeysOf(search_cache)) = Len(search_cache)
          /\ Cardinality(KeysOf(headline_cache)) = Len(headline_cache))
    /\ [][ last'.kind = "fetched" =>
             LET t == last'.tool
                 capacity == IF t = "search" THEN 256 ELSE 64
                 live == TTLCache_expire(MemOf(t), now)
                 mem == IF t = "search" THEN search_cache' ELSE headline_cache'
             IN (Len(live) = capacity /\ last'.key \notin KeysOf(live)) =>
                   /\ Len(mem) = capacity
                   /\ last'.key \in KeysOf(mem)
                   /\ \E k \in KeysOf(live) : k \notin KeysOf(mem) ]_vars

\* the 257th search result has just been stored: search_cache holds 256
\* entries, the first key stored is gone, and headline_cache is full as well
C19_Witness ==
    /\ last.kind = "fetched"
    /\ last.tool = "search"
    /\ last.key = SearchKey(<<97>>, FillArgs("search", 257), 57)
    /\ Len(search_cache) = 256
    /\ SearchKey(<<97>>, FillArgs("search", 1), 1) \notin KeysOf(search_cache)
    /\ SearchKey(<<97>>, FillArgs("search", 2), 2) \in KeysOf(search_cache)
    /\ Len(headline_cache) = 64

-----------------------------------------------------------------------------
\* the endpoint of each tool
OwnEndpoint(tool) == IF tool = "search" THEN "search" ELSE "top-headlines"

\* the request carries exactly the parameters derived from the cache key:
\* (q, lang, country, max, in_title) for search,
\* (lang, country, category, max) for headlines
DerivedFrom(req, tool, key) ==
    /\ req.endpoint = OwnEndpoint(tool)
    /\ Cardinality(ParamNames(req)) = Len(req.params)
    /\ SentIff(req, "apikey", TRUE, ApiKeyValue)
    /\ IF tool = "search"
       THEN /\ ParamNames(req) \subseteq {"apikey", "q", "lang", "country", "max", "in"}
            /\ SentIff(req, "q", TRUE, key[1])
            /\ SentIff(req, "lang", ~IsNone(key[2]), key[2])
            /\ SentIff(req, "country", ~IsNone(key[3]), key[3])
            /\ SentIff(req, "max", TRUE, key[4])
            /\ SentIff(req, "in", Truthy(key[5]), Str("title"))
       ELSE /\ ParamNames(req) \subseteq {"apikey", "lang", "country", "category", "max"}
            /\ SentIff(req, "lang", ~IsNone(key[1]), key[1])
            /\ SentIff(req, "country", ~IsNone(key[2]), key[2])
            /\ SentIff(req, "category", ~IsNone(key[3]), key[3])
            /\ SentIff(req, "max", TRUE, key[4])

\* the unexpired rows of the cache directory that carry the tool's tag
LiveRows(disk, tool) == {r \in disk : r.key[1] = tool /\ ~(r.expires < now)}

\* the step leaves the other tool's entries alone, in memory and on disk
OtherToolUntouched(tool) ==
    IF tool = "search"
    THEN /\ UNCHANGED headline_cache
         /\ LiveRows(disk_cache', "headlines") = LiveRows(disk_cache, "headlines")
    ELSE /\ UNCHANGED search_cache
         /\ LiveRows(disk_cache', "search") = LiveRows(disk_cache, "search")

\* C20: no cross-key or cross-tool contamination.  An invocation is put in
\* flight only by a call of its tool that sends a request to the tool's own
\* endpoint with exactly the parameters derived from its key; a fetched result
\* belongs to such an invocation and is written under that tool and key only,
\* the other entries of the tool keeping their values; a hit returns the value
\* held under the call's own tool and key; and no step of one tool changes an
\* entry of the other tool in either tier.
C20_NoContamination ==
    [][ LET t == last'.tool
            k == last'.key
            mem == IF t = "search" THEN search_cache' ELSE headline_cache'
        IN /\ last'.kind = "request_sent" =>
                /\ DerivedFrom(last'.sent, t, k)
                /\ inv' = inv (+) SetToBag({Awaiting(t, k)})
           /\ inv' # inv /\ last'.kind # "request_sent" =>
                /\ InFlightFor(inv, t, k) >= 1
                /\ InFlightFor(inv', t, k) = InFlightFor(inv, t, k) - 1
                /\ BagCardinality(inv') = BagCardinality(inv) - 1
           /\ last'.kind = "fetched" =>
                /\ InFlightFor(inv, t, k) >= 1
                /\ \A e \in {mem[i] : i \in 1..Len(mem)} :
                      IF e.key = k THEN e.value = last'.result
                      ELSE e \in EntriesOf(t)
                /\ \A r \in disk_cache' \ disk_cache :
                      r.key = <<t, k>> /\ r.value = last'.result
           /\ last'.kind = "memory_hit" =>
                \E e \in EntriesOf(t) : e.key = k /\ e.value = last'.result
           /\ last'.kind = "disk_hit" =>
                \E r \in disk_cache : r.key = <<t, k>> /\ r.value = last'.result
           /\ t \in Tools => OtherToolUntouched(t)
           /\ last'.kind \notin {"fetched", "memory_hit"} =>
                UNCHANGED <<search_cache, headline_cache>>
           /\ last'.kind # "fetched" => UNCHANGED disk_cache ]_vars

\* a headlines result has just been stored while the search tool has an entry
\* in memory and a row on disk, and each tier holds both tools' entries apart
C20_Witness ==
    /\ last.kind = "fetched"
    /\ last.tool = "headlines"
    /\ Len(search_cache) >= 1
    /\ \E e \in EntriesOf("headlines") : e.key = last.key /\ e.value = last.result
    /\ \E r \in disk_cache : r.key[1] = "search" /\ r.expires > now
    /\ \E r \in disk_cache : r.key = <<"headlines", last.key>> /\ r.value = last.result

====
